---- MODULE Spec2Model ----
(***************************************************************************)
(* trAIder dashboard client: DashboardManager (src/ui/static/js/dashboard.js)*)
(* as a state machine.  One action per event callback or async resumption:  *)
(* the browser runs each callback to its next await without interleaving.   *)
(* The older page script (unnamed/part_003) is a second state machine over  *)
(* its own variables, and UnitSpec calls the pure methods on drawn inputs.  *)
(***************************************************************************)
EXTENDS Integers, Sequences, FiniteSets, TLC

VARIABLES
    mainChart,       \* this.mainChart: FALSE = null, TRUE = the plotted graph div
    lastUpdateTime,  \* this.lastUpdateTime: NULL or the Date of the last applied payload
    updateInterval,  \* this.updateInterval: NULL or the id setInterval returned
    timeframe,       \* this.timeframe
    chart,           \* what Plotly has drawn in elements.mainChart
    summary,         \* textContent / innerHTML / className of the summary and panel elements
    toggles,         \* checked state of rsiToggle, macdToggle, signalsToggle
    timers,          \* the page's active interval timers: set of [id, ms]
    reqs,            \* the async calls in flight: request id -> its parameters and position
    issued,          \* number of HTTP requests issued so far (ids are 1..issued)
    alerts,          \* number of alert() dialogs shown by showError
    console,         \* the last console.error line
    event,           \* the callback that ran last and the response it consumed
    call,            \* UnitSpec: the method under call, its argument and its return value
    config,          \* legacy script: config.symbol, config.interval
    legacyTimers,    \* legacy script: the page's active interval timers: set of [id, ms]
    legacyCalls,     \* legacy script: the updateDashboard() calls in flight
    legacyCalled,    \* legacy script: number of updateDashboard() calls so far
    legacyPage,      \* legacy script: what the charts and the text elements show
    legacyConsole,   \* legacy script: the last console.error line
    legacyEvent      \* legacy script: the callback that ran last and the response it consumed

dashboardVars == <<mainChart, lastUpdateTime, updateInterval, timeframe, chart, summary,
                   toggles, timers, reqs, issued, alerts, console, event>>

legacyVars == <<config, legacyTimers, legacyCalls, legacyCalled, legacyPage,
                legacyConsole, legacyEvent>>

vars == <<dashboardVars, call, legacyVars>>

\* ------------------------------------------------------------------ bounds

\* Total number of HTTP requests issued in one run.
MaxReq == 3

\* Total number of updateDashboard() calls of the legacy script in one run.
MaxCalls == 3

\* ------------------------------------------------------------------ constants

NULL == 0

\* <option> values of #timeframeSelect.
TimeframeOptions == {"1m", "5m", "15m", "1h", "4h", "1d"}

\* The options the modelled user picks: the default, one finer, one coarser.
Timeframes == {"1m", "1h", "1d"}

Indicators == {"rsi", "macd", "signals"}

\* ------------------------------------------------------------------ payloads

\* Numbers carried by a payload are thousandths (lastPrice, priceChange) or
\* whole units (volume).  signal / llmAnalysis are <<>> when the field is
\* omitted, else <<[message, details]>> with details <<>> when omitted.
Payload(p) ==
    CASE p = 1 -> [lastPrice |-> 100000, priceChange |-> -1250, volume |-> 1500000,
                   signal |-> <<[message |-> "BUY", details |-> <<"rsi oversold">>]>>,
                   llmAnalysis |-> <<[message |-> "bullish", details |-> <<"momentum">>]>>]
      [] p = 2 -> [lastPrice |-> 0, priceChange |-> 0, volume |-> 0,
                   signal |-> <<>>, llmAnalysis |-> <<>>]
      [] OTHER -> [lastPrice |-> 200500, priceChange |-> 500, volume |-> 2300,
                   signal |-> <<[message |-> "SELL", details |-> <<>>]>>,
                   llmAnalysis |-> <<>>]

PayloadIds == {1, 2, 3}

\* What the network can hand back for one request: fetch() rejected, or a
\* response with its HTTP status (ok = 2xx) and a JSON body with its success
\* flag, whether body.data is a JSON chart spec, and the summary fields
\* Payload(p).
Pending == [fetched |-> FALSE, ok |-> FALSE, success |-> FALSE, chartOk |-> FALSE, p |-> 0]

Responses ==
    {[fetched |-> FALSE, ok |-> FALSE, success |-> FALSE, chartOk |-> FALSE, p |-> 1],
     [fetched |-> TRUE,  ok |-> TRUE,  success |-> FALSE, chartOk |-> FALSE, p |-> 1],
     [fetched |-> TRUE,  ok |-> TRUE,  success |-> FALSE, chartOk |-> TRUE,  p |-> 1],
     [fetched |-> TRUE,  ok |-> TRUE,  success |-> TRUE,  chartOk |-> FALSE, p |-> 1],
     [fetched |-> TRUE,  ok |-> FALSE, success |-> TRUE,  chartOk |-> TRUE,  p |-> 1]}
    \cup {[fetched |-> TRUE, ok |-> TRUE, success |-> TRUE, chartOk |-> TRUE, p |-> p] :
             p \in PayloadIds}

\* ------------------------------------------------------------------ formatting

Abs(n) == IF n < 0 THEN -n ELSE n

\* Nearest integer to a / d for a >= 0, d > 0 (a tie goes up).
RoundDiv(a, d) == (a \div d) + (IF 2 * (a % d) >= d THEN 1 ELSE 0)

TwoDigits(n) == IF n < 10 THEN "0" \o ToString(n) ELSE ToString(n)

\* Number.prototype.toFixed(2) of the number num / den: the sign is taken
\* first, then the magnitude is rounded to hundredths.  (A decimal tie is
\* rounded up here; in the browser the binary double nearest to num / den
\* decides it.)
Hundredths(num, den) ==
    IF den % 100 = 0 THEN RoundDiv(Abs(num), den \div 100)
                     ELSE RoundDiv(Abs(num) * 100, den)

toFixed2(num, den) ==
    (IF num < 0 THEN "-" ELSE "")
        \o ToString(Hundredths(num, den) \div 100) \o "."
        \o TwoDigits(Hundredths(num, den) % 100)

\* formatVolume(volume), volume in whole units.
formatVolume_strictThresholds(volume) ==
    IF volume > 1000000000 THEN toFixed2(volume, 1000000000) \o "B"
    ELSE IF volume > 1000000 THEN toFixed2(volume, 1000000) \o "M"
    ELSE IF volume > 1000 THEN toFixed2(volume, 1000) \o "K"
    ELSE toFixed2(volume, 1)

formatVolume(volume) ==
    IF volume >= 1000000000 THEN toFixed2(volume, 1000000000) \o "B"
    ELSE IF volume >= 1000000 THEN toFixed2(volume, 1000000) \o "M"
    ELSE IF volume >= 1000 THEN toFixed2(volume, 1000) \o "K"
    ELSE toFixed2(volume, 1)

\* `${change >= 0 ? 'positive' : 'negative'}` where change is the toFixed(2)
\* string of priceChange (thousandths): the string is coerced back to a
\* number, so "-0.00" compares as -0 >= 0.
priceChangeClass(pc) ==
    IF pc >= 0 \/ Hundredths(pc, 1000) = 0 THEN "value positive" ELSE "value negative"

\* details || ''
DetailsOrEmpty(d) == IF d = <<>> THEN "" ELSE d[1]

\* Elements as the template ships them.
InitialSummary ==
    [lastPrice |-> "-", priceChange |-> "-", priceChangeClass |-> "value", volume |-> "-",
     signalMessage |-> "No signal available", signalDetails |-> "",
     llmMessage |-> "No analysis available", llmDetails |-> ""]

\* updateMarketSummary(data): every field is written only when truthy.
updateMarketSummary(els, data) ==
    [lastPrice |-> IF data.lastPrice # 0 THEN toFixed2(data.lastPrice, 1000) ELSE els.lastPrice,
     priceChange |-> IF data.priceChange # 0
                        THEN toFixed2(data.priceChange, 1000) \o "%" ELSE els.priceChange,
     priceChangeClass |-> IF data.priceChange # 0
                             THEN priceChangeClass(data.priceChange) ELSE els.priceChangeClass,
     volume |-> IF data.volume # 0 THEN formatVolume(data.volume) ELSE els.volume,
     signalMessage |-> IF data.signal # <<>> THEN data.signal[1].message ELSE els.signalMessage,
     signalDetails |-> IF data.signal # <<>>
                          THEN DetailsOrEmpty(data.signal[1].details) ELSE els.signalDetails,
     llmMessage |-> IF data.llmAnalysis # <<>>
                       THEN data.llmAnalysis[1].message ELSE els.llmMessage,
     llmDetails |-> IF data.llmAnalysis # <<>>
                       THEN DetailsOrEmpty(data.llmAnalysis[1].details) ELSE els.llmDetails]

\* ------------------------------------------------------------------ timer

\* The intervals table of startRealTimeUpdates, `|| 60000` for a missing key.
intervals_fourHoursAsMinutes(tf) ==
    CASE tf = "1m"  -> 1000
      [] tf = "5m"  -> 5000
      [] tf = "15m" -> 15000
      [] tf = "1h"  -> 60000
      [] tf = "4h"  -> 24000
      [] tf = "1d"  -> 300000
      [] OTHER      -> 60000

intervals(tf) ==
    CASE tf = "1m"  -> 1000
      [] tf = "5m"  -> 5000
      [] tf = "15m" -> 15000
      [] tf = "1h"  -> 60000
      [] tf = "4h"  -> 240000
      [] tf = "1d"  -> 300000
      [] OTHER      -> 60000

\* clearInterval(id)
clearInterval(ts, id) == {t \in ts : t.id # id}

\* setInterval: a fresh id, never 0.
FreshTimerId(ts) ==
    IF ts = {} THEN 1 ELSE 1 + (CHOOSE i \in {t.id : t \in ts} : \A t \in ts : t.id <= i)

setInterval(ts, ms) == ts \cup {[id |-> FreshTimerId(ts), ms |-> ms]}

\* startRealTimeUpdates(): clear the timer this.updateInterval names, then
\* start one with the cadence of the current timeframe.
startRealTimeUpdates(ts, ui, tf) ==
    LET cleared == IF ui # NULL THEN clearInterval(ts, ui) ELSE ts
    IN  [timers |-> setInterval(cleared, intervals(tf)),
         updateInterval |-> FreshTimerId(cleared)]

\* ------------------------------------------------------------------ requests

NoChart == [req |-> 0, tf |-> ""]

Snapshot == [timeframe |-> timeframe, toggles |-> toggles]

\* An async call in flight, keyed by the id of its HTTP request.
\*   kind    "chart" (/api/chart-data), "update" (/api/update), "toggle"
\*   origin  what called it: "init", "timeframe", "toggle" (the refresh after a
\*           toggle), "timer", "user" (a toggle click)
\*   ind     the indicator of a toggle request
\*   tf, lastUpdate   the parameters sent
\*   pc      "fetch" awaiting the response, "newPlot" / "react" awaiting Plotly
\*   p       the payload held in `data` once the response arrived
\*   stale   history: a newer request's payload was on display when this
\*           response arrived
\*   pre     history: timeframe and toggles just before the user event behind it
NewReq_initialTimeframe(kind, origin, ind, pre) ==
    [kind |-> kind, origin |-> origin, ind |-> ind, tf |-> "1h",
     lastUpdate |-> lastUpdateTime, pc |-> "fetch", p |-> 0, stale |-> FALSE,
     pre |-> pre]

NewReq(kind, origin, ind, pre) ==
    [kind |-> kind, origin |-> origin, ind |-> ind, tf |-> timeframe',
     lastUpdate |-> lastUpdateTime, pc |-> "fetch", p |-> 0, stale |-> FALSE,
     pre |-> pre]

Send(rs, rec) == (issued + 1 :> rec) @@ rs

Drop(rs, r) == [q \in DOMAIN rs \ {r} |-> rs[q]]

CanSend == issued < MaxReq

\* The callbacks, as recorded in event.type.
NoEvent == [type |-> "construct", req |-> 0, resp |-> Pending]

Ran(type, r, resp) == event' = [type |-> type, req |-> r, resp |-> resp]

\* fetchChartData lines 77-85: fetch resolved, data.success, JSON.parse(data.data).
fetchChartDataAccepts(resp) == resp.fetched /\ resp.success /\ resp.chartOk

\* fetchUpdate lines 146-164, the same three checks.
fetchUpdateAccepts_noSuccessCheck(resp) == resp.fetched /\ resp.chartOk

fetchUpdateAccepts(resp) == resp.fetched /\ resp.success /\ resp.chartOk

\* toggleIndicator / toggleSignals: fetch resolved and data.success.
toggleAccepts_noSuccessCheck(resp) == resp.fetched

toggleAccepts(resp) == resp.fetched /\ resp.success

ToggleResponses == {resp \in Responses : ~resp.chartOk}

\* showError(message): console.error(message); alert(message).
showError(message) ==
    /\ console' = message
    /\ alerts' = alerts + 1

\* initialize() resumes when its fetchChartData() settles (it never rejects)
\* and starts the timer; every other caller has nothing left to do.
ResumeCaller(r) ==
    IF reqs[r].origin = "init"
    THEN LET s == startRealTimeUpdates(timers, updateInterval, timeframe)
         IN  timers' = s.timers /\ updateInterval' = s.updateInterval
    ELSE UNCHANGED <<timers, updateInterval>>

\* ------------------------------------------------------------------ initial state

\* No method is under call by UnitSpec.
NoCall == [fn |-> "", num |-> 0, str |-> "", ret |-> "", done |-> FALSE]

\* The elements the legacy script writes, before it has written any.
LegacyBlankPage ==
    [charts |-> <<>>, title |-> "", lastPrice |-> "", priceChange |-> "",
     priceChangeColor |-> "", volume |-> <<>>, latestSignal |-> "",
     latestSignalColor |-> "", signalConfidence |-> ""]

NoLegacyEvent == [type |-> "", id |-> 0, resp |-> <<>>, threw |-> FALSE]

\* The page of dashboard.js does not load the legacy script.
LegacyNotLoaded ==
    /\ config = [symbol |-> "", interval |-> ""]
    /\ legacyTimers = {}
    /\ legacyCalls = <<>>
    /\ legacyCalled = 0
    /\ legacyPage = LegacyBlankPage
    /\ legacyConsole = ""
    /\ legacyEvent = NoLegacyEvent

\* ------------------------------------------------------------------ construction

\* The constructor has run: listeners bound, initialize() has issued the
\* first fetchChartData() and is awaiting it.
Init_timerBeforeFetch ==
    /\ mainChart = FALSE
    /\ lastUpdateTime = NULL
    /\ updateInterval = 1
    /\ timeframe = "1h"
    /\ chart = NoChart
    /\ summary = InitialSummary
    /\ toggles = [i \in Indicators |-> TRUE]
    /\ timers = {[id |-> 1, ms |-> intervals("1h")]}
    /\ issued = 1
    /\ reqs = (1 :> [kind |-> "chart", origin |-> "init", ind |-> "", tf |-> "1h",
                     lastUpdate |-> NULL, pc |-> "fetch", p |-> 0, stale |-> FALSE,
                     pre |-> [timeframe |-> "1h", toggles |-> [i \in Indicators |-> TRUE]]])
    /\ alerts = 0
    /\ console = ""
    /\ event = [type |-> "construct", req |-> 0, resp |-> Pending]
    /\ call = NoCall
    /\ LegacyNotLoaded

Init ==
    /\ mainChart = FALSE
    /\ lastUpdateTime = NULL
    /\ updateInterval = NULL
    /\ timeframe = "1h"
    /\ chart = NoChart
    /\ summary = InitialSummary
    /\ toggles = [i \in Indicators |-> TRUE]
    /\ timers = {}
    /\ issued = 1
    /\ reqs = (1 :> [kind |-> "chart", origin |-> "init", ind |-> "", tf |-> "1h",
                     lastUpdate |-> NULL, pc |-> "fetch", p |-> 0, stale |-> FALSE,
                     pre |-> [timeframe |-> "1h", toggles |-> [i \in Indicators |-> TRUE]]])
    /\ alerts = 0
    /\ console = ""
    /\ event = NoEvent
    /\ call = NoCall
    /\ LegacyNotLoaded

\* ------------------------------------------------------------------ user events

\* timeframeSelect 'change': this.timeframe = e.target.value; this.fetchChartData().
TimeframeChange_newTimerNoClear(tf) ==
    /\ CanSend
    /\ tf # timeframe
    /\ timeframe' = tf
    /\ reqs' = Send(reqs, NewReq("chart", "timeframe", "", Snapshot))
    /\ issued' = issued + 1
    /\ Ran("timeframe", issued + 1, Pending)
    /\ timers' = setInterval(timers, intervals(tf))
    /\ updateInterval' = FreshTimerId(timers)
    /\ UNCHANGED <<mainChart, lastUpdateTime, chart, summary, toggles, alerts, console>>
    /\ UNCHANGED <<call, legacyVars>>

TimeframeChange(tf) ==
    /\ CanSend
    /\ tf # timeframe
    /\ timeframe' = tf
    /\ reqs' = Send(reqs, NewReq("chart", "timeframe", "", Snapshot))
    /\ issued' = issued + 1
    /\ Ran("timeframe", issued + 1, Pending)
    /\ UNCHANGED <<mainChart, lastUpdateTime, updateInterval, chart, summary,
                   toggles, timers, alerts, console>>
    /\ UNCHANGED <<call, legacyVars>>

\* A click on a toggle checkbox: the browser flips it, then the 'change'
\* listener calls toggleIndicator(ind) / toggleSignals(), which posts.
ToggleChange(ind) ==
    /\ CanSend
    /\ toggles' = [toggles EXCEPT ![ind] = ~@]
    /\ timeframe' = timeframe
    /\ reqs' = Send(reqs, NewReq("toggle", "user", ind, Snapshot))
    /\ issued' = issued + 1
    /\ Ran("toggle", issued + 1, Pending)
    /\ UNCHANGED <<mainChart, lastUpdateTime, updateInterval, chart, summary,
                   timers, alerts, console>>
    /\ UNCHANGED <<call, legacyVars>>

\* toggleIndicator / toggleSignals after the await: on failure showError, on
\* success fetchChartData() is called and issues its request at once.
ToggleResponse(r, resp) ==
    /\ reqs[r].kind = "toggle"
    /\ timeframe' = timeframe
    /\ IF toggleAccepts(resp)
       THEN /\ CanSend
            /\ reqs' = Send(Drop(reqs, r),
                            NewReq("chart", "toggle", reqs[r].ind, reqs[r].pre))
            /\ issued' = issued + 1
            /\ UNCHANGED <<alerts, console>>
       ELSE /\ reqs' = Drop(reqs, r)
            /\ showError("Failed to toggle " \o reqs[r].ind)
            /\ UNCHANGED issued
    /\ Ran("toggleResponse", r, resp)
    /\ UNCHANGED <<mainChart, lastUpdateTime, updateInterval, chart, summary,
                   toggles, timers>>
    /\ UNCHANGED <<call, legacyVars>>

\* ------------------------------------------------------------------ fetchChartData

\* The response to /api/chart-data arrives: lines 77-108 up to the await on Plotly.
ChartResponse_rethrows(r, resp) ==
    /\ reqs[r].kind = "chart" /\ reqs[r].pc = "fetch"
    /\ IF fetchChartDataAccepts(resp)
       THEN /\ chart' = [req |-> r, tf |-> reqs[r].tf]
            /\ reqs' = [reqs EXCEPT ![r].pc = IF mainChart THEN "react" ELSE "newPlot",
                                    ![r].p = resp.p, ![r].stale = (chart.req > r)]
            /\ UNCHANGED <<alerts, console, timers, updateInterval>>
       ELSE /\ reqs' = Drop(reqs, r)
            /\ console' = "Failed to fetch chart data"
            /\ alerts' = alerts + (IF reqs[r].origin \in {"init", "toggle"} THEN 2 ELSE 1)
            /\ UNCHANGED <<timers, updateInterval>>
            /\ UNCHANGED chart
    /\ Ran("chartResponse", r, resp)
    /\ UNCHANGED <<mainChart, lastUpdateTime, timeframe, summary, toggles, issued>>
    /\ UNCHANGED <<call, legacyVars>>

ChartResponse(r, resp) ==
    /\ reqs[r].kind = "chart" /\ reqs[r].pc = "fetch"
    /\ IF fetchChartDataAccepts(resp)
       THEN /\ chart' = [req |-> r, tf |-> reqs[r].tf]
            /\ reqs' = [reqs EXCEPT ![r].pc = IF mainChart THEN "react" ELSE "newPlot",
                                    ![r].p = resp.p, ![r].stale = (chart.req > r)]
            /\ UNCHANGED <<alerts, console, timers, updateInterval>>
       ELSE /\ reqs' = Drop(reqs, r)
            /\ showError("Failed to fetch chart data")
            /\ ResumeCaller(r)
            /\ UNCHANGED chart
    /\ Ran("chartResponse", r, resp)
    /\ UNCHANGED <<mainChart, lastUpdateTime, timeframe, summary, toggles, issued>>
    /\ UNCHANGED <<call, legacyVars>>

\* Plotly's promise resolves: lines 87 (assignment), 111, 113, then the caller.
ChartRendered_dropsChartHandle(r) ==
    /\ reqs[r].kind = "chart" /\ reqs[r].pc \in {"newPlot", "react"}
    /\ mainChart' = mainChart
    /\ summary' = updateMarketSummary(summary, Payload(reqs[r].p))
    /\ lastUpdateTime' = r
    /\ reqs' = Drop(reqs, r)
    /\ ResumeCaller(r)
    /\ Ran("chartRendered", r, Pending)
    /\ UNCHANGED <<timeframe, chart, toggles, issued, alerts, console>>
    /\ UNCHANGED <<call, legacyVars>>

ChartRendered(r) ==
    /\ reqs[r].kind = "chart" /\ reqs[r].pc \in {"newPlot", "react"}
    /\ mainChart' = (mainChart \/ reqs[r].pc = "newPlot")
    /\ summary' = updateMarketSummary(summary, Payload(reqs[r].p))
    /\ lastUpdateTime' = r
    /\ reqs' = Drop(reqs, r)
    /\ ResumeCaller(r)
    /\ Ran("chartRendered", r, Pending)
    /\ UNCHANGED <<timeframe, chart, toggles, issued, alerts, console>>
    /\ UNCHANGED <<call, legacyVars>>

\* ------------------------------------------------------------------ fetchUpdate

\* The interval callback: fetchUpdate() up to its first await.  With
\* lastUpdateTime null, toISOString() throws inside the try before fetch().
TimerTick_sendsWithNullLastUpdate ==
    /\ timers # {}
    /\ timeframe' = timeframe
    /\ CanSend
    /\ reqs' = Send(reqs, NewReq("update", "timer", "", Snapshot))
    /\ issued' = issued + 1
    /\ Ran("tick", issued + 1, Pending)
    /\ UNCHANGED <<mainChart, lastUpdateTime, updateInterval, chart, summary,
                   toggles, timers, alerts, console>>
    /\ UNCHANGED <<call, legacyVars>>

TimerTick_nullShowsError ==
    /\ timers # {}
    /\ timeframe' = timeframe
    /\ IF lastUpdateTime = NULL
       THEN /\ showError("Failed to fetch update")
            /\ Ran("tick", 0, Pending)
            /\ UNCHANGED <<reqs, issued>>
       ELSE /\ CanSend
            /\ reqs' = Send(reqs, NewReq("update", "timer", "", Snapshot))
            /\ issued' = issued + 1
            /\ Ran("tick", issued + 1, Pending)
            /\ UNCHANGED <<console, alerts>>
    /\ UNCHANGED <<mainChart, lastUpdateTime, updateInterval, chart, summary,
                   toggles, timers>>
    /\ UNCHANGED <<call, legacyVars>>

TimerTick_waitsForPending ==
    /\ timers # {}
    /\ reqs = <<>>
    /\ timeframe' = timeframe
    /\ IF lastUpdateTime = NULL
       THEN /\ console' = "Failed to fetch update:"
            /\ Ran("tick", 0, Pending)
            /\ UNCHANGED <<reqs, issued>>
       ELSE /\ CanSend
            /\ reqs' = Send(reqs, NewReq("update", "timer", "", Snapshot))
            /\ issued' = issued + 1
            /\ Ran("tick", issued + 1, Pending)
            /\ UNCHANGED console
    /\ UNCHANGED <<mainChart, lastUpdateTime, updateInterval, chart, summary,
                   toggles, timers, alerts>>
    /\ UNCHANGED <<call, legacyVars>>

TimerTick ==
    /\ timers # {}
    /\ timeframe' = timeframe
    /\ IF lastUpdateTime = NULL
       THEN /\ console' = "Failed to fetch update:"
            /\ Ran("tick", 0, Pending)
            /\ UNCHANGED <<reqs, issued>>
       ELSE /\ CanSend
            /\ reqs' = Send(reqs, NewReq("update", "timer", "", Snapshot))
            /\ issued' = issued + 1
            /\ Ran("tick", issued + 1, Pending)
            /\ UNCHANGED console
    /\ UNCHANGED <<mainChart, lastUpdateTime, updateInterval, chart, summary,
                   toggles, timers, alerts>>
    /\ UNCHANGED <<call, legacyVars>>

\* The catch block of fetchUpdate: log only, "Don't show error for updates".
fetchUpdateCatch_showError ==
    /\ showError("Failed to fetch update")
    /\ UNCHANGED <<timers, updateInterval>>

fetchUpdateCatch ==
    /\ console' = "Failed to fetch update:"
    /\ UNCHANGED <<alerts, timers, updateInterval>>

\* The response to /api/update arrives: lines 157-169.
UpdateResponse(r, resp) ==
    /\ reqs[r].kind = "update" /\ reqs[r].pc = "fetch"
    /\ IF fetchUpdateAccepts(resp)
       THEN /\ chart' = [req |-> r, tf |-> reqs[r].tf]
            /\ reqs' = [reqs EXCEPT ![r].pc = "react", ![r].p = resp.p,
                                    ![r].stale = (chart.req > r)]
            /\ UNCHANGED <<console, alerts, timers, updateInterval>>
       ELSE /\ reqs' = Drop(reqs, r)
            /\ fetchUpdateCatch
            /\ UNCHANGED chart
    /\ Ran("updateResponse", r, resp)
    /\ UNCHANGED <<mainChart, lastUpdateTime, timeframe, summary, toggles, issued>>
    /\ UNCHANGED <<call, legacyVars>>

\* Plotly.react's promise resolves: lines 172, 174.
UpdateRendered(r) ==
    /\ reqs[r].kind = "update" /\ reqs[r].pc = "react"
    /\ summary' = updateMarketSummary(summary, Payload(reqs[r].p))
    /\ lastUpdateTime' = r
    /\ reqs' = Drop(reqs, r)
    /\ Ran("updateRendered", r, Pending)
    /\ UNCHANGED <<mainChart, updateInterval, timeframe, chart, toggles, timers,
                   issued, alerts, console>>
    /\ UNCHANGED <<call, legacyVars>>

\* ------------------------------------------------------------------ specification

Next ==
    \/ \E tf \in Timeframes : TimeframeChange(tf)
    \/ \E ind \in Indicators : ToggleChange(ind)
    \/ \E r \in DOMAIN reqs : \E resp \in ToggleResponses : ToggleResponse(r, resp)
    \/ \E r \in DOMAIN reqs : \E resp \in Responses : ChartResponse(r, resp)
    \/ \E r \in DOMAIN reqs : ChartRendered(r)
    \/ TimerTick
    \/ \E r \in DOMAIN reqs : \E resp \in Responses : UpdateResponse(r, resp)
    \/ \E r \in DOMAIN reqs : UpdateRendered(r)

Spec == Init /\ [][Next]_vars

\* ------------------------------------------------------------------ unit calls

\* Volumes handed to formatVolume: both sides of every threshold, the values
\* that round across one, and values in the billions.  None
\* is a decimal tie, where the browser's double decides the last digit.
VolumeSamples ==
    {0, 1, 7, 42, 500, 999, 1000, 1001, 1004, 1006, 2300, 12346, 654321,
     999994, 999996, 999999, 1000000, 1234567, 1500000, 25000000, 999994999,
     999996000, 999999999, 1000000000, 1500000000, 2100000000}

\* priceChange values in thousandths of a percent, none a decimal tie.
PriceChangeSamples ==
    {-25000, -1250, -1000, -999, -996, -994, -500, -101, -99, -14, -12, -9,
     -6, -4, -3, -2, -1, 0, 1, 2, 3, 4, 6, 9, 12, 14, 99, 101, 500, 994, 996,
     999, 1000, 1250, 25000}

\* A timeframe the intervals table has no key for.
UnknownTimeframe == "2h"

\* The summary elements as a payload applied earlier left them.
EarlierSummary ==
    [InitialSummary EXCEPT !.priceChange = "-1.25%", !.priceChangeClass = "value negative"]

\* A DashboardManager with no call in flight, and one method about to be
\* called on a drawn argument and a drawn prior state.
UnitInit ==
    /\ mainChart = FALSE
    /\ lastUpdateTime = NULL
    /\ chart = NoChart
    /\ toggles = [i \in Indicators |-> TRUE]
    /\ reqs = <<>>
    /\ issued = 0
    /\ alerts = 0
    /\ console = ""
    /\ event = NoEvent
    /\ LegacyNotLoaded
    /\ \/ /\ call \in {[NoCall EXCEPT !.fn = "formatVolume", !.num = v] : v \in VolumeSamples}
          /\ summary = InitialSummary
          /\ timeframe = "1h" /\ timers = {} /\ updateInterval = NULL
       \/ /\ call \in {[NoCall EXCEPT !.fn = "updateMarketSummary", !.num = pc] :
                          pc \in PriceChangeSamples}
          /\ summary \in {InitialSummary, EarlierSummary}
          /\ timeframe = "1h" /\ timers = {} /\ updateInterval = NULL
       \/ /\ call \in {[NoCall EXCEPT !.fn = "startRealTimeUpdates", !.str = tf] :
                          tf \in TimeframeOptions \cup {UnknownTimeframe}}
          /\ summary = InitialSummary
          /\ timeframe = call.str
          /\ \/ timers = {} /\ updateInterval = NULL
             \/ \E tf \in TimeframeOptions :
                    timers = {[id |-> 1, ms |-> intervals(tf)]} /\ updateInterval = 1

\* formatVolume(call.num)
CallFormatVolume ==
    /\ call.fn = "formatVolume" /\ ~call.done
    /\ call' = [call EXCEPT !.ret = formatVolume(call.num), !.done = TRUE]
    /\ UNCHANGED <<dashboardVars, legacyVars>>

\* updateMarketSummary(data) with data.priceChange = call.num and no other field.
CallUpdateMarketSummary ==
    /\ call.fn = "updateMarketSummary" /\ ~call.done
    /\ summary' = updateMarketSummary(summary,
                      [lastPrice |-> 0, priceChange |-> call.num, volume |-> 0,
                       signal |-> <<>>, llmAnalysis |-> <<>>])
    /\ call' = [call EXCEPT !.done = TRUE]
    /\ UNCHANGED <<mainChart, lastUpdateTime, updateInterval, timeframe, chart, toggles,
                   timers, reqs, issued, alerts, console, event, legacyVars>>

\* startRealTimeUpdates() with this.timeframe = call.str.
CallStartRealTimeUpdates ==
    /\ call.fn = "startRealTimeUpdates" /\ ~call.done
    /\ timers' = startRealTimeUpdates(timers, updateInterval, timeframe).timers
    /\ updateInterval' = startRealTimeUpdates(timers, updateInterval, timeframe).updateInterval
    /\ call' = [call EXCEPT !.done = TRUE]
    /\ UNCHANGED <<mainChart, lastUpdateTime, timeframe, chart, summary, toggles,
                   reqs, issued, alerts, console, event, legacyVars>>

UnitNext ==
    \/ CallFormatVolume
    \/ CallUpdateMarketSummary
    \/ CallStartRealTimeUpdates

UnitSpec == UnitInit /\ [][UnitNext]_vars

\* ------------------------------------------------------------------ legacy script

\* config.updateInterval
LegacyUpdateInterval == 5000

\* The values the modelled user picks in #symbol-selector / #interval-selector;
\* the first of each is the one config starts with.
Symbols == {"BTCUSDT", "ETHUSDT"}

Intervals == {"1m", "5m"}

\* The candle lists /api/market-data answers with: empty, one candle, two
\* rising, two falling.  close is in thousandths, volume in whole units.
Candles(k) ==
    CASE k = 0 -> <<>>
      [] k = 1 -> <<[close |-> 100000, volume |-> 10]>>
      [] k = 2 -> <<[close |-> 100000, volume |-> 10], [close |-> 101000, volume |-> 20]>>
      [] OTHER -> <<[close |-> 101000, volume |-> 20], [close |-> 100000, volume |-> 30]>>

CandleListIds == 0..3

\* fetch rejected or body unparsable / status other than 'success' / success.
MarketResponses ==
    {[fetched |-> FALSE, status |-> "", k |-> 0],
     [fetched |-> TRUE, status |-> "error", k |-> 0]}
    \cup {[fetched |-> TRUE, status |-> "success", k |-> k] : k \in CandleListIds}

\* confidence is in thousandths.
SignalsResponses ==
    {[fetched |-> FALSE, status |-> "", signal |-> 0, confidence |-> 0],
     [fetched |-> TRUE, status |-> "error", signal |-> 0, confidence |-> 0],
     [fetched |-> TRUE, status |-> "success", signal |-> 1, confidence |-> 875],
     [fetched |-> TRUE, status |-> "success", signal |-> -1, confidence |-> 600],
     [fetched |-> TRUE, status |-> "success", signal |-> 0, confidence |-> 0]}

\* fetchMarketData / fetchSignals return json.data, else null from the catch.
fetchReturnsData_ignoresStatus(resp) == resp.fetched

fetchReturnsData(resp) == resp.fetched /\ resp.status = "success"

\* updateDashboard() up to its first await: fetchMarketData() has sent the
\* request built from cfg.
LegacyCall(origin, cfg) ==
    [origin |-> origin, pc |-> "market", symbol |-> cfg.symbol,
     interval |-> cfg.interval, sigSymbol |-> ""]

updateDashboard(origin, cfg) ==
    /\ legacyCalled < MaxCalls
    /\ legacyCalled' = legacyCalled + 1
    /\ legacyCalls' = (legacyCalled + 1 :> LegacyCall(origin, cfg)) @@ legacyCalls

LegacyRan(type, id, resp, threw) ==
    legacyEvent' = [type |-> type, id |-> id, resp |-> resp, threw |-> threw]

\* createPriceChart, createVolumeChart, createIndicatorCharts: all four plots
\* are redrawn from data; the price chart is titled with config.symbol.
createCharts(page, data) ==
    [page EXCEPT !.charts = data, !.title = config.symbol \o " Price"]

\* updateMarketInfo(data): the writes it performs before data[length - 1].close
\* or data[length - 2].close throws a TypeError, or all of them.
updateMarketInfo(page, data) ==
    IF Len(data) = 0 THEN page
    ELSE IF Len(data) = 1
         THEN [page EXCEPT !.lastPrice = toFixed2(data[1].close, 1000)]
    ELSE LET latest == data[Len(data)]
             prev == data[Len(data) - 1]
         IN  [page EXCEPT
                !.lastPrice = toFixed2(latest.close, 1000),
                !.priceChange = toFixed2((latest.close - prev.close) * 100, prev.close) \o "%",
                !.priceChangeColor = IF latest.close >= prev.close
                                        THEN "var(--success-color)" ELSE "var(--error-color)",
                !.volume = <<"toLocaleString", latest.volume>>]

updateMarketInfoThrows(data) == Len(data) < 2

\* updateSignals(signals) for non-null signals.
updateSignals(page, signals) ==
    [page EXCEPT
       !.latestSignal = IF signals.signal > 0 THEN "BUY"
                        ELSE IF signals.signal < 0 THEN "SELL" ELSE "NEUTRAL",
       !.latestSignalColor = IF signals.signal > 0 THEN "var(--success-color)"
                             ELSE IF signals.signal < 0 THEN "var(--error-color)"
                             ELSE "var(--text-color)",
       !.signalConfidence = "Confidence: " \o ToString(signals.confidence \div 10) \o "."
                               \o ToString(signals.confidence % 10) \o "%"]

\* The page of the legacy script does not load dashboard.js.
DashboardNotLoaded ==
    /\ mainChart = FALSE
    /\ lastUpdateTime = NULL
    /\ updateInterval = NULL
    /\ timeframe = ""
    /\ chart = NoChart
    /\ summary = InitialSummary
    /\ toggles = [i \in Indicators |-> TRUE]
    /\ timers = {}
    /\ reqs = <<>>
    /\ issued = 0
    /\ alerts = 0
    /\ console = ""
    /\ event = NoEvent

\* The script has run and DOMContentLoaded has fired: the first
\* updateDashboard() is awaiting its market data and the timer is set.
LegacyInit ==
    /\ config = [symbol |-> "BTCUSDT", interval |-> "1m"]
    /\ legacyTimers = {[id |-> 1, ms |-> LegacyUpdateInterval]}
    /\ legacyCalled = 1
    /\ legacyCalls = (1 :> LegacyCall("load", [symbol |-> "BTCUSDT", interval |-> "1m"]))
    /\ legacyPage = LegacyBlankPage
    /\ legacyConsole = ""
    /\ legacyEvent = [type |-> "load", id |-> 1, resp |-> <<>>, threw |-> FALSE]
    /\ call = NoCall
    /\ DashboardNotLoaded

\* symbolSelector 'change': config.symbol = e.target.value; updateDashboard().
SymbolChange_requestBeforeConfig(sym) ==
    /\ sym # config.symbol
    /\ config' = [config EXCEPT !.symbol = sym]
    /\ updateDashboard("symbol", config)
    /\ LegacyRan("symbol", legacyCalled + 1, [value |-> sym], FALSE)
    /\ UNCHANGED <<legacyTimers, legacyPage, legacyConsole, dashboardVars, call>>

SymbolChange(sym) ==
    /\ sym # config.symbol
    /\ config' = [config EXCEPT !.symbol = sym]
    /\ updateDashboard("symbol", config')
    /\ LegacyRan("symbol", legacyCalled + 1, [value |-> sym], FALSE)
    /\ UNCHANGED <<legacyTimers, legacyPage, legacyConsole, dashboardVars, call>>

\* intervalSelector 'change': config.interval = e.target.value; updateDashboard().
IntervalChange(int) ==
    /\ int # config.interval
    /\ config' = [config EXCEPT !.interval = int]
    /\ updateDashboard("interval", config')
    /\ LegacyRan("interval", legacyCalled + 1, [value |-> int], FALSE)
    /\ UNCHANGED <<legacyTimers, legacyPage, legacyConsole, dashboardVars, call>>

\* The interval timer fires: updateDashboard().
LegacyTick ==
    /\ legacyTimers # {}
    /\ updateDashboard("timer", config)
    /\ LegacyRan("tick", legacyCalled + 1, <<>>, FALSE)
    /\ UNCHANGED <<config, legacyTimers, legacyPage, legacyConsole, dashboardVars, call>>

\* The answer to /api/market-data arrives: the rest of fetchMarketData, then
\* updateDashboard up to `await fetchSignals()` or to the line that throws.
MarketResponse(c, resp) ==
    /\ legacyCalls[c].pc = "market"
    /\ IF ~fetchReturnsData(resp)
       THEN /\ legacyConsole' = "Error fetching market data:"
            /\ legacyCalls' = Drop(legacyCalls, c)
            /\ LegacyRan("marketResponse", c, resp, FALSE)
            /\ UNCHANGED legacyPage
       ELSE /\ legacyPage' = updateMarketInfo(createCharts(legacyPage, Candles(resp.k)),
                                              Candles(resp.k))
            /\ legacyCalls' = IF updateMarketInfoThrows(Candles(resp.k))
                                 THEN Drop(legacyCalls, c)
                                 ELSE [legacyCalls EXCEPT ![c].pc = "signals",
                                                          ![c].sigSymbol = config.symbol]
            /\ LegacyRan("marketResponse", c, resp, updateMarketInfoThrows(Candles(resp.k)))
            /\ UNCHANGED legacyConsole
    /\ UNCHANGED <<config, legacyTimers, legacyCalled, dashboardVars, call>>

\* The answer to /api/signals arrives: the rest of fetchSignals, updateSignals.
SignalsResponse(c, resp) ==
    /\ legacyCalls[c].pc = "signals"
    /\ IF fetchReturnsData(resp)
       THEN /\ legacyPage' = updateSignals(legacyPage, resp)
            /\ UNCHANGED legacyConsole
       ELSE /\ legacyConsole' = "Error fetching signals:"
            /\ UNCHANGED legacyPage
    /\ legacyCalls' = Drop(legacyCalls, c)
    /\ LegacyRan("signalsResponse", c, resp, FALSE)
    /\ UNCHANGED <<config, legacyTimers, legacyCalled, dashboardVars, call>>

LegacyNext ==
    \/ \E sym \in Symbols : SymbolChange(sym)
    \/ \E int \in Intervals : IntervalChange(int)
    \/ LegacyTick
    \/ \E c \in DOMAIN legacyCalls : \E resp \in MarketResponses : MarketResponse(c, resp)
    \/ \E c \in DOMAIN legacyCalls : \E resp \in SignalsResponses : SignalsResponse(c, resp)

LegacySpec == LegacyInit /\ [][LegacyNext]_vars

\* ------------------------------------------------------------------ properties

\* The step is a resumption of the async call r.
StepOf(r) == r \in DOMAIN reqs /\ (r \notin DOMAIN reqs' \/ reqs'[r] # reqs[r])

\* The step is the arrival of the response to r.
Arrival(r) == StepOf(r) /\ reqs[r].pc = "fetch"

\* A data response that is a failure: fetch rejected, success=false, or a
\* chart payload that cannot be parsed.
DataFailure(resp) == ~resp.fetched \/ ~resp.success \/ ~resp.chartOk

\* A toggle response that is a failure: fetch rejected or success=false.
ToggleFailure(resp) == ~resp.fetched \/ ~resp.success

Display == <<chart, summary, lastUpdateTime>>

\* The render section of fetchChartData / fetchUpdate applied to a display:
\* the chart is replaced, then updateMarketSummary(data).
RenderPayload(d, c, p) ==
    [chart |-> c, summary |-> updateMarketSummary(d.summary, Payload(p))]

\* C1: a response to an older data request never changes the chart, the
\* summary or lastUpdateTime once a newer request's payload is on display.
C1_StaleResponseIgnored ==
    [][\A r \in DOMAIN reqs :
          (/\ reqs[r].kind \in {"chart", "update"}
           /\ StepOf(r)
           /\ IF reqs[r].pc = "fetch" THEN chart.req > r ELSE reqs[r].stale)
          => UNCHANGED Display]_vars

\* C2: the arrival of a failed poll response (rejected, success=false or
\* unparsable chart) leaves chart, summary, panels and lastUpdateTime as they were.
C2_FailedPollKeepsDisplay ==
    [][\A r \in DOMAIN reqs :
          (reqs[r].kind = "update" /\ Arrival(r) /\ DataFailure(event'.resp))
          => UNCHANGED Display]_vars

C2_Witness ==
    /\ event.type = "updateResponse"
    /\ event.resp.fetched /\ ~event.resp.success /\ event.resp.chartOk
    /\ chart # NoChart
    /\ lastUpdateTime # NULL
    /\ summary # InitialSummary

\* C3: whenever a chart is displayed and nothing is in flight, the chart is
\* the payload of the most recent successful response to a request made for
\* the currently selected timeframe.  The chart on display is always the most
\* recent successful response of all, so this says it was requested for the
\* selected timeframe.
C3_IdleChartIsForSelectedTimeframe ==
    (chart # NoChart /\ DOMAIN reqs = {}) => chart.tf = timeframe

\* C4: the active polling timer's cadence is the table entry of the selected
\* timeframe, also after the user has switched timeframe.
C4_CadenceFollowsTimeframe ==
    \A t \in timers : t.ms = intervals(timeframe)

\* C5: at most one interval timer is active, and it is the one
\* this.updateInterval names.
C5_AtMostOneTimer ==
    /\ Cardinality(timers) <= 1
    /\ \A t \in timers : t.id = updateInterval

C5_Witness ==
    /\ Cardinality(timers) = 1
    /\ event.type = "timeframe"
    /\ lastUpdateTime # NULL

\* C6: when a toggle request fails, the checkbox shows what it showed before
\* the user's click.
C6_FailedToggleRestoresCheckbox ==
    [][\A r \in DOMAIN reqs :
          (reqs[r].kind = "toggle" /\ Arrival(r) /\ ToggleFailure(event'.resp))
          => toggles'[reqs[r].ind] = reqs[r].pre.toggles[reqs[r].ind]]_vars

\* C7: a chart refresh on behalf of a toggle is issued only in the step that
\* receives the toggle's success; a failed toggle issues no request, leaves
\* chart and summary alone and shows one alert.
C7_RefreshOnlyAfterToggleSuccess ==
    [][/\ \A r \in DOMAIN reqs :
            (reqs[r].kind = "toggle" /\ Arrival(r) /\ ToggleFailure(event'.resp))
            => /\ issued' = issued
               /\ DOMAIN reqs' = DOMAIN reqs \ {r}
               /\ UNCHANGED <<chart, summary>>
               /\ alerts' = alerts + 1
       /\ \A q \in DOMAIN reqs' \ DOMAIN reqs :
            reqs'[q].origin = "toggle"
            => /\ event'.type = "toggleResponse"
               /\ ~ToggleFailure(event'.resp)
               /\ reqs'[q].kind = "chart"]_vars

C7_Witness ==
    /\ event.type = "toggleResponse"
    /\ event.resp.fetched /\ ~event.resp.success
    /\ chart # NoChart
    /\ alerts = 1

\* C8: a failed poll (a failed response, or a tick that throws before fetch
\* because lastUpdateTime is null) shows no alert and leaves the interval
\* timer active and untouched, so the next tick can fire.
C8_FailedPollIsSilent ==
    [][/\ \A r \in DOMAIN reqs :
            (reqs[r].kind = "update" /\ Arrival(r) /\ DataFailure(event'.resp))
            => /\ alerts' = alerts
               /\ timers' = timers
               /\ updateInterval' = updateInterval
               /\ timers' # {}
       /\ (event'.type = "tick" /\ event'.req = 0)
            => /\ alerts' = alerts
               /\ timers' = timers
               /\ updateInterval' = updateInterval
               /\ timers' # {}]_vars

C8_Witness ==
    /\ event.type = "updateResponse"
    /\ DataFailure(event.resp)
    /\ timers # {}
    /\ alerts = 0

\* C9: a failed user-initiated request (initial load, timeframe change,
\* toggle) with no later request behind it shows an alert and leaves
\* timeframe, toggles, lastUpdateTime, chart and summary as they were before
\* the user's action.
C9_FailedUserActionKeepsUIState ==
    [][\A r \in DOMAIN reqs :
          (/\ reqs[r].origin \in {"init", "timeframe", "user"}
           /\ Arrival(r)
           /\ r = issued
           /\ IF reqs[r].kind = "toggle" THEN ToggleFailure(event'.resp)
                                         ELSE DataFailure(event'.resp))
          => /\ alerts' = alerts + 1
             /\ timeframe' = reqs[r].pre.timeframe
             /\ toggles' = reqs[r].pre.toggles
             /\ UNCHANGED Display]_vars

\* C10: whenever the code has rendered a payload P1 (chart drawn, summary
\* written), rendering any payload P2 next gives the same chart, summary and
\* panels as rendering P2 directly on the display P1 was rendered over.
C10_RenderConverges ==
    [][\A r \in DOMAIN reqs :
          (StepOf(r) /\ reqs[r].pc \in {"newPlot", "react"})
          => \A p2 \in PayloadIds :
                LET c2 == [req |-> issued + 1, tf |-> timeframe]
                IN  RenderPayload([chart |-> chart', summary |-> summary'], c2, p2)
                      = RenderPayload([chart |-> chart, summary |-> summary], c2, p2)]_vars

\* C11: Plotly.newPlot is called at most once per page: the calls still
\* awaited plus the one whose result this.mainChart holds never exceed one.
C11_ChartCreatedOnce ==
    Cardinality({r \in DOMAIN reqs : reqs[r].pc = "newPlot"})
        + (IF mainChart THEN 1 ELSE 0) <= 1

\* C12: initialize() issues one fetchChartData (request 1); while it is in
\* flight no timer is active and no poll has been issued.
C12_TimerStartsAfterInitialFetch ==
    /\ \A r \in DOMAIN reqs : reqs[r].origin = "init" => r = 1
    /\ 1 \in DOMAIN reqs
         => /\ reqs[1].origin = "init"
            /\ timers = {}
            /\ updateInterval = NULL
            /\ \A r \in DOMAIN reqs : reqs[r].kind # "update"

C12_Witness ==
    /\ event.type = "chartRendered"
    /\ event.req = 1
    /\ Cardinality(timers) = 1
    /\ updateInterval # NULL

\* The callbacks of a background poll.
PollEvents == {"tick", "updateResponse", "updateRendered"}

\* C13: once the first fetch has failed and as long as no fetch has drawn a
\* chart, no poll is in flight and a poll callback changes neither chart,
\* this.mainChart, summary nor lastUpdateTime, and issues no request.
C13_PollsIdleUntilFirstSuccess ==
    /\ [](chart = NoChart => \A r \in DOMAIN reqs : reqs[r].kind # "update")
    /\ [][(1 \notin DOMAIN reqs /\ chart = NoChart /\ event'.type \in PollEvents)
            => UNCHANGED <<chart, mainChart, summary, lastUpdateTime, reqs, issued>>]_vars

C13_Witness ==
    /\ event.type = "tick"
    /\ 1 \notin DOMAIN reqs
    /\ chart = NoChart
    /\ alerts >= 1
    /\ timers # {}

\* Messages of the signals the payloads carry.
SignalMessages == {Payload(q).signal[1].message : q \in {q \in PayloadIds : Payload(q).signal # <<>>}}

\* C14: after a payload has been applied the signal panel shows that
\* payload's signal (details empty when it has none) and, for a payload
\* without a signal, no message of any payload's signal.
C14_SignalReplacedWholesale ==
    [][\A r \in DOMAIN reqs :
          (StepOf(r) /\ reqs[r].pc \in {"newPlot", "react"})
          => LET sig == Payload(reqs[r].p).signal
             IN  IF sig # <<>>
                 THEN /\ summary'.signalMessage = sig[1].message
                      /\ summary'.signalDetails = DetailsOrEmpty(sig[1].details)
                 ELSE /\ summary'.signalMessage \notin SignalMessages
                      /\ summary'.signalDetails = ""]_vars

\* The unit formatVolume should divide by (as hundredths) and its suffix.
VolumeUnit(v) ==
    IF v >= 1000000000 THEN [per100 |-> 10000000, suffix |-> "B"]
    ELSE IF v >= 1000000 THEN [per100 |-> 10000, suffix |-> "M"]
    ELSE IF v >= 1000 THEN [per100 |-> 10, suffix |-> "K"]
    ELSE [per100 |-> 0, suffix |-> ""]

\* The number of hundredths of the unit nearest to v.
NearestHundredth(v) ==
    LET u == VolumeUnit(v).per100
    IN  IF u = 0 THEN 100 * v
        ELSE CHOOSE h \in (v \div u)..(v \div u + 1) : 2 * Abs(v - h * u) < u

TwoDecimals(h) ==
    ToString(h \div 100) \o "." \o ToString((h % 100) \div 10) \o ToString(h % 10)

\* C15: formatVolume maps a non-negative volume v to v / 1e9 with two decimals
\* and suffix B when v >= 1e9, v / 1e6 and M when 1e6 <= v < 1e9, v / 1e3 and
\* K when 1e3 <= v < 1e6, and v with two decimals and no suffix below that;
\* 1,500,000 gives "1.50M", 2,300 gives "2.30K", 500 gives "500.00".
C15_FormatVolumeMapping ==
    (call.fn = "formatVolume" /\ call.done)
        => /\ call.ret = TwoDecimals(NearestHundredth(call.num)) \o VolumeUnit(call.num).suffix
           /\ call.num = 1500000 => call.ret = "1.50M"
           /\ call.num = 2300 => call.ret = "2.30K"
           /\ call.num = 500 => call.ret = "500.00"

C15_Witness ==
    /\ call.fn = "formatVolume" /\ call.done
    /\ call.num = 999996 /\ call.ret = "1000.00K"

\* C16: for every priceChange value carried by an applied payload the text
\* shown is that value rounded to two decimals followed by '%', and the class
\* is negative when the value is below zero and positive otherwise; -1.25
\* shows "-1.25%" negative, +0.50 shows "0.50%" positive.
C16_PriceChangeDisplay ==
    (call.fn = "updateMarketSummary" /\ call.done)
        => /\ summary.priceChange = toFixed2(call.num, 1000) \o "%"
           /\ summary.priceChangeClass =
                  (IF call.num < 0 THEN "value negative" ELSE "value positive")
           /\ call.num = -1250 => summary.priceChange = "-1.25%"
           /\ call.num = 500 => summary.priceChange = "0.50%"

\* The cadence table as the specification lists it, shortest timeframe first.
CadenceTable ==
    <<[tf |-> "1m", ms |-> 1000], [tf |-> "5m", ms |-> 5000], [tf |-> "15m", ms |-> 15000],
      [tf |-> "1h", ms |-> 60000], [tf |-> "4h", ms |-> 240000], [tf |-> "1d", ms |-> 300000]>>

Cadence(tf) ==
    IF \E i \in DOMAIN CadenceTable : CadenceTable[i].tf = tf
    THEN CadenceTable[CHOOSE i \in DOMAIN CadenceTable : CadenceTable[i].tf = tf].ms
    ELSE 60000

\* C17: the cadence startRealTimeUpdates chooses depends on the selected
\* timeframe only and comes from a fixed monotone table (1m 1000 ms, 5m 5000,
\* 15m 15000, 1h 60000, 4h 240000, 1d 300000); a timeframe that is not in the
\* table gets 60000 ms.
C17_CadenceFromTable ==
    /\ \A i, j \in DOMAIN CadenceTable : i <= j => CadenceTable[i].ms <= CadenceTable[j].ms
    /\ (call.fn = "startRealTimeUpdates" /\ call.done)
          => timers = {[id |-> updateInterval, ms |-> Cadence(timeframe)]}

C17_Witness ==
    /\ call.fn = "startRealTimeUpdates" /\ call.done
    /\ timeframe = UnknownTimeframe
    /\ timers = {[id |-> 1, ms |-> 60000]} /\ updateInterval = 1

\* C18: a non-2xx HTTP response is a NetworkFailure on every endpoint: whatever
\* body it carries it changes neither chart, summary nor lastUpdateTime (the
\* call ends there), and on a user-initiated action it surfaces an error.
C18_Non2xxIsNetworkFailure ==
    [][\A r \in DOMAIN reqs :
          (Arrival(r) /\ event'.resp.fetched /\ ~event'.resp.ok)
              => /\ UNCHANGED Display
                 /\ r \notin DOMAIN reqs'
                 /\ reqs[r].origin \in {"timeframe", "toggle", "user"} => alerts' = alerts + 1]_vars

\* C20: lastUpdateTime changes only in the step that applies a successful
\* response, and becomes that response's lastUpdate (the stamp of request r is
\* r); every /api/update request sent carries the timeframe selected at that
\* moment and the lastUpdate of the payload applied last.
C20_LastUpdateBookkeeping ==
    [][/\ lastUpdateTime' # lastUpdateTime
            => \E r \in DOMAIN reqs :
                  /\ StepOf(r) /\ reqs[r].pc \in {"newPlot", "react"}
                  /\ r \notin DOMAIN reqs'
                  /\ lastUpdateTime' = r
       /\ \A q \in DOMAIN reqs' \ DOMAIN reqs :
              reqs'[q].kind = "update"
                  => /\ reqs'[q].tf = timeframe
                     /\ lastUpdateTime # NULL
                     /\ reqs'[q].lastUpdate = lastUpdateTime]_vars

C20_Witness ==
    /\ event.type = "tick" /\ event.req \in DOMAIN reqs
    /\ reqs[event.req].kind = "update"
    /\ reqs[event.req].tf = "1m" /\ reqs[event.req].lastUpdate = 2

\* C19: in the legacy script every change of the symbol or interval selector
\* updates config and at once starts an updateDashboard whose request carries
\* the newly selected symbol / interval; exactly one periodic timer, of 5000
\* ms and started on DOMContentLoaded, is active in every reachable state.
C19_SelectorsAndSingleTimer ==
    /\ [](legacyTimers = {[id |-> 1, ms |-> 5000]})
    /\ [][(legacyEvent' # legacyEvent /\ legacyEvent'.type \in {"symbol", "interval"})
            => /\ config' = IF legacyEvent'.type = "symbol"
                               THEN [config EXCEPT !.symbol = legacyEvent'.resp.value]
                               ELSE [config EXCEPT !.interval = legacyEvent'.resp.value]
               /\ DOMAIN legacyCalls' = DOMAIN legacyCalls \cup {legacyEvent'.id}
               /\ legacyEvent'.id \notin DOMAIN legacyCalls
               /\ legacyCalls'[legacyEvent'.id].pc = "market"
               /\ legacyCalls'[legacyEvent'.id].symbol = config'.symbol
               /\ legacyCalls'[legacyEvent'.id].interval = config'.interval]_vars

C19_Witness ==
    /\ legacyEvent.type = "interval"
    /\ config = [symbol |-> "ETHUSDT", interval |-> "5m"]
    /\ legacyEvent.id \in DOMAIN legacyCalls
    /\ legacyCalls[legacyEvent.id].symbol = "ETHUSDT"
    /\ legacyCalls[legacyEvent.id].interval = "5m"
    /\ Cardinality(legacyTimers) = 1

\* C21: a timer tick issues a poll whether or not an earlier poll or a fetch
\* started by the user is still in flight, so several requests can be in
\* flight at once; the new request leaves the pending ones as they are, and
\* every step resumes at most one call: responses are applied one callback at
\* a time.
C21_TickIgnoresPendingCalls ==
    /\ []((timers # {} /\ lastUpdateTime # NULL /\ CanSend) => ENABLED TimerTick)
    /\ [][/\ (event' # event /\ event'.type = "tick" /\ lastUpdateTime # NULL)
              => /\ DOMAIN reqs' = DOMAIN reqs \cup {event'.req}
                 /\ event'.req \notin DOMAIN reqs
                 /\ reqs'[event'.req].kind = "update"
                 /\ \A r \in DOMAIN reqs : reqs'[r] = reqs[r]
       /\ Cardinality({r \in DOMAIN reqs : StepOf(r)}) <= 1]_vars

C21_Witness ==
    /\ event.type = "tick" /\ event.req \in DOMAIN reqs
    /\ reqs[event.req].kind = "update"
    /\ \E r \in DOMAIN reqs : r # event.req /\ reqs[r].kind \in {"update", "chart"}

\* C22: in the legacy updateDashboard a failed market-data fetch (rejected, or
\* status other than 'success') changes no chart, market-info or signal field
\* and issues no signals request; after a market-data success the charts and
\* the market info show the new candles, and a failed signals fetch then
\* leaves the signal and confidence fields (and everything else on the page)
\* as they are; no notification is shown in either case.
C22_LegacyFailuresKeepFields ==
    [][LET ev == legacyEvent'
           failed == ~ev.resp.fetched \/ ev.resp.status # "success"
       IN  /\ (ev # legacyEvent /\ ev.type = "marketResponse" /\ failed)
                => /\ UNCHANGED <<legacyPage, alerts>>
                   /\ DOMAIN legacyCalls' = DOMAIN legacyCalls \ {ev.id}
                   /\ \A c \in DOMAIN legacyCalls' : legacyCalls'[c] = legacyCalls[c]
           /\ (ev # legacyEvent /\ ev.type = "marketResponse" /\ ~failed
                 /\ Len(Candles(ev.resp.k)) >= 2)
                => LET data == Candles(ev.resp.k)
                   IN  /\ legacyPage'.charts = data
                       /\ legacyPage'.lastPrice = toFixed2(data[Len(data)].close, 1000)
                       /\ legacyPage'.volume = <<"toLocaleString", data[Len(data)].volume>>
                       /\ legacyPage'.latestSignal = legacyPage.latestSignal
                       /\ legacyPage'.signalConfidence = legacyPage.signalConfidence
                       /\ legacyCalls'[ev.id].pc = "signals"
           /\ (ev # legacyEvent /\ ev.type = "signalsResponse" /\ failed)
                => /\ UNCHANGED <<legacyPage, alerts>>
                   /\ DOMAIN legacyCalls' = DOMAIN legacyCalls \ {ev.id}]_vars

C22_Witness ==
    /\ legacyEvent.type = "signalsResponse" /\ legacyEvent.resp.status = "error"
    /\ legacyConsole = "Error fetching signals:"
    /\ legacyPage.charts # <<>> /\ legacyPage.lastPrice = "101.00"
    /\ legacyPage.latestSignal = "" /\ legacyPage.signalConfidence = ""

\* C23: lastUpdateTime is non-null only once the chart widget exists
\* (this.mainChart non-null), so a poll, which is only sent with a non-null
\* lastUpdateTime, never calls Plotly.react before fetchChartData created the
\* chart.
C23_LastUpdateImpliesChart ==
    /\ lastUpdateTime # NULL => mainChart
    /\ \A r \in DOMAIN reqs : reqs[r].kind = "update" => mainChart /\ chart # NoChart

C23_Witness ==
    /\ mainChart /\ lastUpdateTime # NULL
    /\ \E r \in DOMAIN reqs : reqs[r].kind = "update" /\ reqs[r].pc = "react"

\* C24: while lastUpdateTime is null a timer tick sends no request and changes
\* nothing but the console line: the failure is logged inside fetchUpdate, no
\* error is shown, and the timer stays active.
C24_NullTickOnlyLogs ==
    [][(lastUpdateTime = NULL /\ event'.type = "tick")
          => /\ UNCHANGED <<mainChart, lastUpdateTime, updateInterval, timeframe, chart,
                            summary, toggles, timers, reqs, issued, alerts>>
             /\ console' = "Failed to fetch update:"
             /\ event'.req = 0
             /\ timers # {}]_vars

C24_Witness ==
    /\ event = [type |-> "tick", req |-> 0, resp |-> Pending]
    /\ lastUpdateTime = NULL /\ console = "Failed to fetch update:"
    /\ Cardinality(timers) = 1 /\ reqs = <<>>

\* C25: whenever no request and no render is in flight, the chart on display,
\* the market summary and lastUpdateTime come from the same response: the
\* chart drawn is that of the response whose summary and lastUpdate were
\* written last, whatever the order in which the calls and their render
\* promises completed.
C25_IdleDisplayFromOneResponse ==
    (reqs = <<>> /\ chart # NoChart /\ event.type \in {"chartRendered", "updateRendered"})
        => chart.req = lastUpdateTime /\ event.req = lastUpdateTime

\* C26: each failed user-initiated action (and the initial fetch) shows exactly
\* one notification: a failed toggle call shows the toggle error and starts no
\* refresh; a failed chart fetch, whether it was started by initialize, by a
\* timeframe change or as the refresh after a successful toggle, shows the
\* chart-fetch error once and ends the call; no other step shows an error.
C26_OneNotificationPerFailure ==
    [][/\ \A r \in DOMAIN reqs :
            /\ (Arrival(r) /\ reqs[r].kind = "chart" /\ DataFailure(event'.resp))
                  => /\ alerts' = alerts + 1
                     /\ console' = "Failed to fetch chart data"
                     /\ DOMAIN reqs' = DOMAIN reqs \ {r}
            /\ (Arrival(r) /\ reqs[r].kind = "toggle" /\ ToggleFailure(event'.resp))
                  => /\ alerts' = alerts + 1
                     /\ console' = "Failed to toggle " \o reqs[r].ind
                     /\ DOMAIN reqs' = DOMAIN reqs \ {r}
       /\ alerts' # alerts
            => \E r \in DOMAIN reqs :
                  /\ Arrival(r) /\ reqs[r].origin # "timer"
                  /\ IF reqs[r].kind = "toggle" THEN ToggleFailure(event'.resp)
                                                ELSE DataFailure(event'.resp)]_vars

C26_Witness ==
    /\ event.type = "chartResponse" /\ event.req = 3
    /\ event.resp.fetched /\ ~event.resp.success
    /\ alerts = 1 /\ console = "Failed to fetch chart data"
    /\ reqs = <<>> /\ ~toggles["rsi"] /\ timeframe = "1h"

\* C27: in the legacy updateDashboard, whenever the charts are redrawn from a
\* successfully fetched candle list, of any length, the last price and the
\* volume are updated from the last candle of that list and the signals fetch
\* is then issued, so the charts and the market info never show different
\* payloads.
C27_LegacyViewsAgree ==
    [][LET ev == legacyEvent'
       IN  (ev # legacyEvent /\ ev.type = "marketResponse"
              /\ ev.resp.fetched /\ ev.resp.status = "success")
              => LET data == Candles(ev.resp.k)
                 IN  /\ legacyPage'.charts = data
                     /\ Len(data) >= 1
                          => /\ legacyPage'.lastPrice = toFixed2(data[Len(data)].close, 1000)
                             /\ legacyPage'.volume = <<"toLocaleString", data[Len(data)].volume>>
                     /\ ev.id \in DOMAIN legacyCalls'
                     /\ legacyCalls'[ev.id].pc = "signals"
                     /\ ~ev.threw]_vars

====
